---- MODULE Spec2Model ----
(***************************************************************************)
(* Model of `center` (src/main.c): command line parsing, path checks,      *)
(* structure / index / selection set-up, the single-frame branch and the   *)
(* trajectory loop with its skip policy and error exits.                   *)
(*                                                                         *)
(* Coordinates are integers (ticks); a box edge is a whole, even number of *)
(* ticks, so box / 2 is exact.  The groan library routines called by main  *)
(* (center_of_geometry, selection_translate) are not part of src/ and are  *)
(* modelled from sections 4.1 and 4.3 of the specification.  The circular  *)
(* mean is quantised to the tick grid: the centre is the grid angle that   *)
(* lies closest to atan2(S, C); where two grid angles are equally close,   *)
(* or S = C = 0, every candidate is a possible outcome.                    *)
(* Progress printing (main.c:255-259) writes to stdout only and is not     *)
(* modelled; velocities are not modelled.                                  *)
(***************************************************************************)
EXTENDS Integers, Sequences, FiniteSets, TLC

\* ------------------------------------------------------------------ bounds
\* largest number of options getopt hands to get_arguments
MaxArgs == 8
\* largest value given to -s
MaxSkip == 3
\* largest number of frames the input trajectory delivers
MaxFrames == 3

\* ------------------------------------------------------------ input pools
NULL == "NULL"

GroPaths == {"md.gro"}
XtcPaths == {"md.gro", "md.xtc"}
OutPaths == {"md.gro", "md.xtc", "out.xtc"}
NdxArgs == {"my.ndx"}
RefArgs == {"Backbone"}

Axes == {1, 2, 3}
ZeroVec == <<0, 0, 0>>

\* a frame: box edge lengths and one position per atom
NoFrame == [box |-> ZeroVec, pos |-> <<>>]

Boxes == {<<10, 10, 10>>, <<10, 8, 10>>}
\* atoms 1 and 2 straddle the x seam of a box of 10; the second pair is
\* another periodic image of the first, up to two box edges away (a
\* trajectory need not be wrapped into the box); in the third pair x = 1 and x = 6
\* are opposite on a circle of 10 (no defined centre) and z = 5 and z = 2
\* have their centre half way between two grid points
RefPairs == {<<<<1, 5, 5>>, <<9, 5, 5>>>>,
             <<<<11, 5, -5>>, <<-1, 5, 25>>>>,
             <<<<1, 5, 5>>, <<6, 3, 2>>>>}

\* structures a gro file can hold
GroPool ==
    {[box |-> b, pos |-> <<p[1], p[2], <<3, 1, 7>>>>] :
        b \in Boxes, p \in RefPairs}

\* frames an xtc file can hold
XtcPool ==
    {[box |-> <<10, 10, 10>>, pos |-> <<<<1, 5, 5>>, <<9, 5, 5>>, <<3, 1, 7>>>>],
     [box |-> <<10, 8, 10>>, pos |-> <<<<11, 5, -5>>, <<7, 3, 3>>, <<9, 7, 9>>>>]}

\* ------------------------------------------------------------- geometry
\* 1000 * cos(2 pi k / L) and 1000 * sin(2 pi k / L), k = 0 .. L-1
Cos10 == <<1000, 809, 309, -309, -809, -1000, -809, -309, 309, 809>>
Cos8 == <<1000, 707, 0, -707, -1000, -707, 0, 707>>
Sin10 == <<0, 588, 951, 951, 588, 0, -588, -951, -951, -588>>
Sin8 == <<0, 707, 1000, 707, 0, -707, -1000, -707>>

CosT(L) == IF L = 10 THEN Cos10 ELSE Cos8

SinT(L) == IF L = 10 THEN Sin10 ELSE Sin8

\* theta = 2 pi p / L, as an index into the tables: periodic in p
Angle(p, L) == (p % L) + 1

\* sum of f[a] over the atoms a of S
RECURSIVE SumOver(_, _)
SumOver(S, f) ==
    IF S = {} THEN 0
    ELSE LET a == CHOOSE e \in S : TRUE
         IN f[a] + SumOver(S \ {a}, f)

\* (atan2(S, C) / 2 pi) * L normalised into [0, L) and taken on the grid:
\* the grid points whose direction has the largest projection on (C, S)
Nearest(S, C, L) ==
    LET score == [k \in 0 .. (L - 1) |->
                     C * CosT(L)[k + 1] + S * SinT(L)[k + 1]]
    IN {k \in 0 .. (L - 1) : \A j \in 0 .. (L - 1) : score[k] >= score[j]}

\* the centres possible on axis d
CenterAxis(sel, pos, box, d) ==
    LET L == box[d]
        S == SumOver(sel, [a \in sel |-> SinT(L)[Angle(pos[a][d], L)]])
        C == SumOver(sel, [a \in sel |-> CosT(L)[Angle(pos[a][d], L)]])
    IN Nearest(S, C, L)

\* the set of centres center_of_geometry can return
center_of_geometry(sel, pos, box) ==
    {<<cx, cy, cz>> : cx \in CenterAxis(sel, pos, box, 1),
                      cy \in CenterAxis(sel, pos, box, 2),
                      cz \in CenterAxis(sel, pos, box, 3)}

set_translation_whole_box(translation, box, cen, x, y, z) ==
    <<IF x = 1 THEN box[1] - cen[1] ELSE translation[1],
      IF y = 1 THEN box[2] - cen[2] ELSE translation[2],
      IF z = 1 THEN box[3] - cen[3] ELSE translation[3]>>

set_translation_negated(translation, box, cen, x, y, z) ==
    <<IF x = 1 THEN cen[1] - (box[1] \div 2) ELSE translation[1],
      IF y = 1 THEN cen[2] - (box[2] \div 2) ELSE translation[2],
      IF z = 1 THEN cen[3] - (box[3] \div 2) ELSE translation[3]>>

set_translation_unmasked(translation, box, cen, x, y, z) ==
    <<(box[1] \div 2) - cen[1],
      (box[2] \div 2) - cen[2],
      (box[3] \div 2) - cen[3]>>

set_translation(translation, box, cen, x, y, z) ==
    <<IF x = 1 THEN (box[1] \div 2) - cen[1] ELSE translation[1],
      IF y = 1 THEN (box[2] \div 2) - cen[2] ELSE translation[2],
      IF z = 1 THEN (box[3] \div 2) - cen[3] ELSE translation[3]>>

\* one coordinate moved by t with a single wrap step; untouched when t = 0
TranslateCoord(old, t, L) ==
    IF t = 0 THEN old
    ELSE LET new == old + t
         IN IF new < 0 THEN new + L
            ELSE IF new >= L THEN new - L
            ELSE new

\* positions after translating the atoms of sel
selection_translate(sel, pos, trans, box) ==
    [a \in DOMAIN pos |->
        IF a \in sel
        THEN <<TranslateCoord(pos[a][1], trans[1], box[1]),
               TranslateCoord(pos[a][2], trans[2], box[2]),
               TranslateCoord(pos[a][3], trans[3], box[3])>>
        ELSE pos[a]]

\* ---------------------------------------------------------------- state
VARIABLES
    pc,               \* position in main / get_arguments
    nargs,            \* options getopt has returned so far
    gro_file, xtc_file, ndx_file, output_file, reference_atoms,
    skip, center_x, center_y, center_z,
    gro_specified, output_specified,
    system,           \* the atom buffer and box (NoFrame while not loaded)
    sys_loaded,       \* system != NULL
    ndx_groups,       \* "unread", NULL (read_ndx failed) or "groups"
    all,              \* selection of all atoms
    reference,        \* the reference selection
    xtc,              \* input trajectory handle: "none", "open", "closed", "misused"
    output,           \* output handle: "none", "open", "closed", "misused"
    frames,           \* the frame counter of the loop
    center, translation,
    exitCode,         \* -1 while main runs, then the value main returns
    nread,            \* frames read successfully from the trajectory
    lastRead,         \* outcome of the last read_xtc_step
    lastWrite,        \* outcome of the last write
    pre,              \* the frame as it was read, before centering
    written,          \* what the output file holds
    nvalidated,       \* calls of validate_xtc
    validated,        \* what validate_xtc found: "none", "match", "mismatch"
    axes_given,       \* the axis flags as parsed, <<>> before main.c:153
    ncentered,        \* centerings computed
    freed             \* how often each heap object was released

vars == <<pc, nargs, gro_file, xtc_file, ndx_file, output_file,
          reference_atoms, skip, center_x, center_y, center_z,
          gro_specified, output_specified, system, sys_loaded, ndx_groups,
          all, reference, xtc, output, frames, center, translation,
          exitCode, nread, lastRead, lastWrite, pre, written, nvalidated,
          validated, axes_given, ncentered, freed>>

argVars == <<gro_file, xtc_file, ndx_file, output_file, reference_atoms,
             skip, center_x, center_y, center_z, gro_specified,
             output_specified>>
setupVars == <<system, sys_loaded, ndx_groups, all, reference>>
handleVars == <<xtc, output>>
checkVars == <<nvalidated, validated, axes_given>>
loopVars == <<frames, center, translation, nread, lastRead, lastWrite, pre,
              written, ncentered>>

\* a select_t pointer: NULL or a set of atom indices
NullSel == [isnull |-> TRUE, atoms |-> {}]
Sel(S) == [isnull |-> FALSE, atoms |-> S]

Objects == {"system", "all", "reference", "ndx_groups"}

Init ==
    /\ pc = "getopt"
    /\ nargs = 0
    /\ gro_file = NULL
    /\ xtc_file = NULL
    /\ ndx_file = "index.ndx"
    /\ output_file = NULL
    /\ reference_atoms = "Protein"
    /\ skip = 1
    /\ center_x = 0
    /\ center_y = 0
    /\ center_z = 0
    /\ gro_specified = 0
    /\ output_specified = 0
    /\ system = NoFrame
    /\ sys_loaded = FALSE
    /\ ndx_groups = "unread"
    /\ all = NullSel
    /\ reference = NullSel
    /\ xtc = "none"
    /\ output = "none"
    /\ frames = 0
    /\ center = ZeroVec
    /\ translation = ZeroVec
    /\ exitCode = -1
    /\ nread = 0
    /\ lastRead = "none"
    /\ lastWrite = "none"
    /\ pre = NoFrame
    /\ written = <<>>
    /\ nvalidated = 0
    /\ validated = "none"
    /\ axes_given = <<>>
    /\ ncentered = 0
    /\ freed = [o \in Objects |-> 0]

\* return from main with the given code
Exit(code) ==
    /\ pc' = "exit"
    /\ exitCode' = code

\* free() / dict_destroy() of the objects in S
Free(S) == freed' = [o \in Objects |-> IF o \in S THEN freed[o] + 1 ELSE freed[o]]

\* xdrfile_close / fclose of a handle: closing a handle that is not open
\* (never opened, or closed before) is a misuse
CloseHandle(h) == IF h = "open" THEN "closed" ELSE "misused"

\* -------------------------------------------------------- get_arguments
\* one iteration of the getopt loop that returns an option
InGetopt ==
    /\ pc = "getopt"
    /\ nargs < MaxArgs
    /\ nargs' = nargs + 1

\* get_arguments returns 1: main prints the usage and returns 1
ArgError ==
    /\ Exit(1)
    /\ UNCHANGED <<setupVars, handleVars, loopVars, checkVars, freed>>

ArgNext ==
    /\ UNCHANGED <<pc, exitCode, setupVars, handleVars, loopVars, checkVars,
                   freed>>

OptH ==
    /\ InGetopt
    /\ ArgError
    /\ UNCHANGED argVars

OptC ==
    /\ InGetopt
    /\ \E p \in GroPaths : gro_file' = p
    /\ gro_specified' = 1
    /\ ArgNext
    /\ UNCHANGED <<xtc_file, ndx_file, output_file, reference_atoms, skip,
                   center_x, center_y, center_z, output_specified>>

OptF ==
    /\ InGetopt
    /\ \E p \in XtcPaths : xtc_file' = p
    /\ ArgNext
    /\ UNCHANGED <<gro_file, ndx_file, output_file, reference_atoms, skip,
                   center_x, center_y, center_z, gro_specified,
                   output_specified>>

OptN ==
    /\ InGetopt
    /\ \E p \in NdxArgs : ndx_file' = p
    /\ ArgNext
    /\ UNCHANGED <<gro_file, xtc_file, output_file, reference_atoms, skip,
                   center_x, center_y, center_z, gro_specified,
                   output_specified>>

OptO ==
    /\ InGetopt
    /\ \E p \in OutPaths : output_file' = p
    /\ output_specified' = 1
    /\ ArgNext
    /\ UNCHANGED <<gro_file, xtc_file, ndx_file, reference_atoms, skip,
                   center_x, center_y, center_z, gro_specified>>

OptR ==
    /\ InGetopt
    /\ \E r \in RefArgs : reference_atoms' = r
    /\ ArgNext
    /\ UNCHANGED <<gro_file, xtc_file, ndx_file, output_file, skip,
                   center_x, center_y, center_z, gro_specified,
                   output_specified>>

\* -s with a text sscanf cannot parse: skip keeps its value
OptSUnparsable ==
    /\ InGetopt
    /\ ArgError
    /\ UNCHANGED argVars

\* main.c:65
SkipRejected(v) == v <= 0

\* -s with an integer
OptS ==
    /\ InGetopt
    /\ \E v \in (-1) .. MaxSkip :
        /\ skip' = v
        /\ IF SkipRejected(v) THEN ArgError ELSE ArgNext
    /\ UNCHANGED <<gro_file, xtc_file, ndx_file, output_file,
                   reference_atoms, center_x, center_y, center_z,
                   gro_specified, output_specified>>

OptX ==
    /\ InGetopt
    /\ center_x' = 1
    /\ ArgNext
    /\ UNCHANGED <<gro_file, xtc_file, ndx_file, output_file,
                   reference_atoms, skip, center_y, center_z, gro_specified,
                   output_specified>>

OptY ==
    /\ InGetopt
    /\ center_y' = 1
    /\ ArgNext
    /\ UNCHANGED <<gro_file, xtc_file, ndx_file, output_file,
                   reference_atoms, skip, center_x, center_z, gro_specified,
                   output_specified>>

OptZ ==
    /\ InGetopt
    /\ center_z' = 1
    /\ ArgNext
    /\ UNCHANGED <<gro_file, xtc_file, ndx_file, output_file,
                   reference_atoms, skip, center_x, center_y, gro_specified,
                   output_specified>>

\* an option getopt does not know, or one that lacks its argument
OptUnknown ==
    /\ InGetopt
    /\ ArgError
    /\ UNCHANGED argVars

\* main.c:86
RequiredMissing(g, o) == g = 0 \/ o = 0

\* getopt returns -1; get_arguments returns
OptEnd ==
    /\ pc = "getopt"
    /\ nargs' = 0
    /\ IF RequiredMissing(gro_specified, output_specified)
       THEN /\ Exit(1)
       ELSE /\ pc' = "paths"
            /\ UNCHANGED exitCode
    /\ UNCHANGED <<argVars, setupVars, handleVars, loopVars, checkVars,
                   freed>>

\* ------------------------------------------------------------------ main
PathsCollide_no_xtc_out(g, x, o) ==
    \/ g = o
    \/ (x # NULL /\ g = x)

\* main.c:135-150: strcmp of the three pairs
PathsCollide(g, x, o) ==
    \/ g = o
    \/ (x # NULL /\ (g = x \/ x = o))

\* main.c:133-150
CheckPaths ==
    /\ pc = "paths"
    /\ IF PathsCollide(gro_file, xtc_file, output_file)
       THEN /\ Exit(1)
       ELSE /\ pc' = "axes"
            /\ UNCHANGED exitCode
    /\ UNCHANGED <<nargs, argVars, setupVars, handleVars, loopVars,
                   checkVars, freed>>

NoAxisSelected_any(x, y, z) == x = 0 \/ y = 0 \/ z = 0

\* main.c:153
NoAxisSelected(x, y, z) == x = 0 /\ y = 0 /\ z = 0

\* main.c:152-157
DefaultAxes ==
    /\ pc = "axes"
    /\ axes_given' = <<center_x, center_y, center_z>>
    /\ IF NoAxisSelected(center_x, center_y, center_z)
       THEN /\ center_x' = 1
            /\ center_y' = 1
            /\ center_z' = 1
       ELSE UNCHANGED <<center_x, center_y, center_z>>
    /\ pc' = "load_gro"
    /\ UNCHANGED <<nargs, gro_file, xtc_file, ndx_file, output_file,
                   reference_atoms, skip, gro_specified, output_specified,
                   setupVars, handleVars, loopVars, exitCode, nvalidated,
                   validated, freed>>

\* main.c:159-161
LoadGro ==
    /\ pc = "load_gro"
    /\ \/ /\ Exit(1)
          /\ UNCHANGED <<system, sys_loaded>>
       \/ /\ \E f \in GroPool : system' = f
          /\ sys_loaded' = TRUE
          /\ pc' = "read_ndx"
          /\ UNCHANGED exitCode
    /\ UNCHANGED <<nargs, argVars, ndx_groups, all, reference, handleVars,
                   loopVars, checkVars, freed>>

NdxFailureFatal_on_null(groups) == groups = NULL

\* main.c:163-164: the result of read_ndx is not tested
NdxFailureFatal(groups) == FALSE

\* main.c:163-164: a failed read leaves ndx_groups NULL and is ignored
ReadNdx ==
    /\ pc = "read_ndx"
    /\ \E g \in {NULL, "groups"} :
        /\ ndx_groups' = g
        /\ IF NdxFailureFatal(g)
           THEN Exit(1)
           ELSE /\ pc' = "select_all"
                /\ UNCHANGED exitCode
    /\ UNCHANGED <<nargs, argVars, system, sys_loaded, all, reference,
                   handleVars, loopVars, checkVars, freed>>

\* the atoms select_system selects
select_system(sys) == Sel(DOMAIN sys.pos)

\* main.c:166-167
SelectAll ==
    /\ pc = "select_all"
    /\ all' = select_system(system)
    /\ pc' = "select_ref"
    /\ UNCHANGED <<nargs, argVars, system, sys_loaded, ndx_groups, reference,
                   handleVars, loopVars, exitCode, checkVars, freed>>

\* what smart_select can return: NULL (query not understood, group not
\* found) or any subset of the atoms of the selection it is given
smart_select(sel) == {NullSel} \cup {Sel(S) : S \in SUBSET sel.atoms}

NoReference_null_only(ref) == ref.isnull

\* main.c:171
NoReference(ref) == ref.isnull \/ Cardinality(ref.atoms) = 0

NoTrajectory_never(x) == FALSE

\* main.c:182
NoTrajectory(x) == x = NULL

\* main.c:169-179, and the branch of main.c:182
SmartSelect ==
    /\ pc = "select_ref"
    /\ \E r \in smart_select(all) :
        /\ reference' = r
        /\ IF NoReference(r)
           THEN /\ Free({"ndx_groups", "system", "all", "reference"})
                /\ Exit(1)
           ELSE /\ pc' = IF NoTrajectory(xtc_file)
                          THEN "open_gro_out" ELSE "open_xtc"
                /\ UNCHANGED <<exitCode, freed>>
    /\ UNCHANGED <<nargs, argVars, system, sys_loaded, ndx_groups, all,
                   handleVars, loopVars, checkVars>>

TranslateTarget_reference == reference

\* main.c:198, main.c:271: the selection handed to selection_translate
TranslateTarget == all

\* main.c:193-198 and main.c:266-271: centre of the reference selection,
\* translation, translation of the atoms in place
CenterSystem ==
    \E c \in center_of_geometry(reference.atoms, system.pos, system.box) :
        LET t == set_translation(ZeroVec, system.box, c,
                                 center_x, center_y, center_z)
        IN /\ center' = c
           /\ translation' = t
           /\ system' = [system EXCEPT
                  !.pos = selection_translate(TranslateTarget.atoms,
                                              system.pos, t, system.box)]
           /\ ncentered' = ncentered + 1

\* the record a successful write adds to the output file
Record(i) == [idx |-> i, box |-> system.box, pos |-> system.pos]

\* --------------------------------------------------- single-frame branch
\* main.c:183-191
OpenGroOutput ==
    /\ pc = "open_gro_out"
    /\ \/ /\ output' = "none"
          /\ Free({"ndx_groups", "system", "all", "reference"})
          /\ Exit(1)
       \/ /\ output' = "open"
          /\ pc' = "center_gro"
          /\ UNCHANGED <<exitCode, freed>>
    /\ UNCHANGED <<nargs, argVars, setupVars, xtc, loopVars, checkVars>>

\* main.c:193-198
CenterGro ==
    /\ pc = "center_gro"
    /\ pre' = system
    /\ CenterSystem
    /\ pc' = "write_gro"
    /\ UNCHANGED <<nargs, argVars, sys_loaded, ndx_groups, all, reference,
                   handleVars, frames, exitCode, nread, lastRead, lastWrite,
                   written, checkVars, freed>>

\* main.c:200-211
WriteGro ==
    /\ pc = "write_gro"
    /\ \E ret \in {0, 1} :
        /\ written' = IF ret = 0 THEN Append(written, Record(0)) ELSE written
        /\ lastWrite' = IF ret = 0 THEN "ok" ELSE "fail"
        /\ Exit(IF ret # 0 THEN 1 ELSE 0)
    /\ Free({"ndx_groups", "system", "all", "reference"})
    /\ output' = CloseHandle(output)
    /\ UNCHANGED <<nargs, argVars, setupVars, xtc, frames, center,
                   translation, nread, lastRead, pre, checkVars, ncentered>>

\* ----------------------------------------------------- trajectory branch
\* main.c:214-223
OpenXtc ==
    /\ pc = "open_xtc"
    /\ \/ /\ xtc' = "none"
          /\ Free({"ndx_groups", "system", "all", "reference"})
          /\ Exit(1)
       \/ /\ xtc' = "open"
          /\ pc' = "validate"
          /\ UNCHANGED <<exitCode, freed>>
    /\ UNCHANGED <<nargs, argVars, setupVars, output, loopVars, checkVars>>

CountMismatch_never(matches) == FALSE

\* main.c:229
CountMismatch(matches) == ~matches

\* main.c:225-237
ValidateXtc ==
    /\ pc = "validate"
    /\ nvalidated' = nvalidated + 1
    /\ \E matches \in BOOLEAN :
        /\ validated' = IF matches THEN "match" ELSE "mismatch"
        /\ IF CountMismatch(matches)
           THEN /\ xtc' = CloseHandle(xtc)
                /\ Free({"ndx_groups", "system", "all", "reference"})
                /\ Exit(1)
           ELSE /\ pc' = "open_out"
                /\ UNCHANGED <<xtc, exitCode, freed>>
    /\ UNCHANGED <<nargs, argVars, setupVars, output, loopVars, axes_given>>

\* main.c:239-249
OpenOutput ==
    /\ pc = "open_out"
    /\ \/ /\ output' = "none"
          /\ xtc' = CloseHandle(xtc)
          /\ Free({"ndx_groups", "system", "all", "reference"})
          /\ Exit(1)
       \/ /\ output' = "open"
          /\ pc' = "read"
          /\ UNCHANGED <<xtc, exitCode, freed>>
    /\ UNCHANGED <<nargs, argVars, setupVars, loopVars, checkVars>>

read_xtc_step_box_only(sys, f) == [sys EXCEPT !.box = f.box]

\* the buffer after read_xtc_step has read frame f into it: the box and
\* the position of every atom are those of the frame
read_xtc_step(sys, f) == [sys EXCEPT !.box = f.box, !.pos = f.pos]

\* what read_xtc_step returns: 0 for a frame, non-zero at the end of the
\* file and for a broken frame alike
ReadReturn(outcome) == IF outcome = "ok" THEN 0 ELSE 1

\* main.c:253
LoopContinues(ret) == ret = 0

\* main.c:253: read_xtc_step and the loop condition
ReadStep ==
    /\ pc = "read"
    /\ \E outcome \in {"ok", "eof", "error"} :
        /\ outcome = "ok" => nread < MaxFrames
        /\ lastRead' = outcome
        /\ IF outcome = "ok"
           THEN /\ \E f \in XtcPool : /\ system' = read_xtc_step(system, f)
                                      /\ pre' = system'
                /\ nread' = nread + 1
           ELSE UNCHANGED <<system, pre, nread>>
        /\ pc' = IF LoopContinues(ReadReturn(outcome))
                 THEN "skip_check" ELSE "finish"
    /\ UNCHANGED <<nargs, argVars, sys_loaded, ndx_groups, all, reference,
                   handleVars, frames, center, translation, exitCode,
                   lastWrite, written, checkVars, ncentered, freed>>

SkipFrame_from_one(f, n) == (f + 1) % n # 0

\* main.c:261
SkipFrame(f, n) == f % n # 0

SkippedIncrement_none(f) == f

\* main.c:262: ++frames on the skipped path
SkippedIncrement(f) == f + 1

\* main.c:261-264
SkipCheck ==
    /\ pc = "skip_check"
    /\ IF SkipFrame(frames, skip)
       THEN /\ frames' = SkippedIncrement(frames)
            /\ pc' = "read"
       ELSE /\ pc' = "center"
            /\ UNCHANGED frames
    /\ UNCHANGED <<nargs, argVars, setupVars, handleVars, center,
                   translation, exitCode, nread, lastRead, lastWrite, pre,
                   written, checkVars, ncentered, freed>>

\* main.c:266-271
CenterStep ==
    /\ pc = "center"
    /\ CenterSystem
    /\ pc' = "write"
    /\ UNCHANGED <<nargs, argVars, sys_loaded, ndx_groups, all, reference,
                   handleVars, frames, exitCode, nread, lastRead, lastWrite,
                   pre, written, checkVars, freed>>

WriteFailureCloses_xtc_only == {"xtc"}

\* main.c:278-279: the handles closed when a write has failed
WriteFailureCloses == {"xtc", "output"}

WriteFailed_never(ret) == FALSE

WriteFailed_minus_one(ret) == ret = -1

\* main.c:273
WriteFailed(ret) == ret = 1

\* main.c:273-283: write_xtc_step returns 0, or 1 when nothing was written
WriteStep ==
    /\ pc = "write"
    /\ \E ret \in {0, 1} :
        /\ written' = IF ret = 0 THEN Append(written, Record(nread - 1))
                      ELSE written
        /\ lastWrite' = IF ret = 0 THEN "ok" ELSE "fail"
        /\ IF WriteFailed(ret)
           THEN /\ Free({"ndx_groups", "all", "reference"})
                /\ xtc' = IF "xtc" \in WriteFailureCloses
                          THEN CloseHandle(xtc) ELSE xtc
                /\ output' = IF "output" \in WriteFailureCloses
                             THEN CloseHandle(output) ELSE output
                /\ Exit(1)
                /\ UNCHANGED <<frames, center, translation>>
           ELSE /\ frames' = frames + 1
                /\ center' = ZeroVec
                /\ translation' = ZeroVec
                /\ pc' = "read"
                /\ UNCHANGED <<xtc, output, exitCode, freed>>
    /\ UNCHANGED <<nargs, argVars, setupVars, nread, lastRead, pre,
                   checkVars, ncentered>>

\* main.c:285-295
Finish ==
    /\ pc = "finish"
    /\ Free({"ndx_groups", "all", "reference", "system"})
    /\ xtc' = CloseHandle(xtc)
    /\ output' = CloseHandle(output)
    /\ Exit(0)
    /\ UNCHANGED <<nargs, argVars, setupVars, loopVars, checkVars>>

Next ==
    \/ OptH \/ OptC \/ OptF \/ OptN \/ OptO \/ OptR \/ OptSUnparsable
    \/ OptS \/ OptX \/ OptY \/ OptZ \/ OptUnknown \/ OptEnd
    \/ CheckPaths \/ DefaultAxes \/ LoadGro \/ ReadNdx \/ SelectAll
    \/ SmartSelect
    \/ OpenGroOutput \/ CenterGro \/ WriteGro
    \/ OpenXtc \/ ValidateXtc \/ OpenOutput \/ ReadStep \/ SkipCheck
    \/ CenterStep \/ WriteStep \/ Finish

Spec == Init /\ [][Next]_vars

TypeOK ==
    /\ exitCode \in {-1, 0, 1}
    /\ frames \in 0 .. MaxFrames
\* ------------------------------------------------------------ properties
\* a frame has just been centred and not yet written
Centered == pc \in {"write", "write_gro"}

\* C1: skip fidelity.  When a trajectory run ends after every read and
\* write succeeded, the output holds exactly the input frames with index
\* 0, N, 2N, ... below the number T of frames read, in that order, so
\* ceil(T / N) frames, N being the skip interval.
SkipFidelity ==
    (pc = "exit" /\ xtc_file # NULL /\ lastRead = "eof" /\ lastWrite # "fail")
        => /\ Len(written) = (nread + skip - 1) \div skip
           /\ \A i \in 1 .. Len(written) :
                /\ written[i].idx = (i - 1) * skip
                /\ written[i].idx < nread

SkipFidelityWitness ==
    /\ pc = "exit"
    /\ exitCode = 0
    /\ lastRead = "eof"
    /\ skip = 2
    /\ nread = 3
    /\ Len(written) = 2
    /\ written[2].idx = 2

\* C2: full-population translation.  In every centred frame, of either
\* mode, the one translation vector planned from the centre of the
\* reference selection has moved every atom of the system, inside the
\* reference selection or not, by the same offset on each axis, modulo the
\* box edge.
FullPopulationTranslation ==
    Centered =>
        /\ center \in center_of_geometry(reference.atoms, pre.pos, pre.box)
        /\ translation = set_translation(ZeroVec, pre.box, center,
                                         center_x, center_y, center_z)
        /\ DOMAIN system.pos = DOMAIN pre.pos
        /\ \A a \in DOMAIN pre.pos : \A d \in Axes :
            (system.pos[a][d] - pre.pos[a][d] - translation[d])
                % pre.box[d] = 0

FullPopulationWitness ==
    /\ pc = "write"
    /\ reference.atoms = {1, 2}
    /\ translation[1] # 0
    /\ system.pos[3][1] # pre.pos[3][1]

\* C3: axis isolation.  On every axis the mask disables the planned
\* translation is 0 and every atom of a centred frame still has the
\* coordinate that was read.
AxisIsolation ==
    Centered =>
        \A d \in Axes :
            <<center_x, center_y, center_z>>[d] = 0 =>
                /\ translation[d] = 0
                /\ \A a \in DOMAIN pre.pos :
                    system.pos[a][d] = pre.pos[a][d]

AxisIsolationWitness ==
    /\ pc = "write"
    /\ center_x = 1
    /\ center_y = 0
    /\ center_z = 0
    /\ center[2] # pre.box[2] \div 2
    /\ \A a \in DOMAIN pre.pos :
        /\ system.pos[a][1] # pre.pos[a][1]
        /\ system.pos[a][2] = pre.pos[a][2]
        /\ system.pos[a][3] = pre.pos[a][3]

\* the frame with every coordinate taken in its image inside the box
InBox(f) ==
    [a \in DOMAIN f.pos |-> [d \in Axes |-> f.pos[a][d] % f.box[d]]]

\* the reference selection is atoms 1 and 2 at x = 1 and x = 9 of a box of 10
SeamCase ==
    /\ pre.box = <<10, 10, 10>>
    /\ pre.pos[1] = <<1, 5, 5>>
    /\ pre.pos[2] = <<9, 5, 5>>
    /\ reference.atoms = {1, 2}
    /\ center_x = 1

\* C4: boundary correctness.  With the reference selection at x = 1 and
\* x = 9 of a box of 10 the centre on x is 0, not 5, the planned x
\* translation is 5 and every atom ends at its old x plus 5 modulo 10; and
\* in every centred frame the centre is one the points' images inside the
\* box give, whichever image each reference point was read in.
BoundaryCorrectness ==
    Centered =>
        /\ SeamCase =>
            /\ center[1] = 0
            /\ translation[1] = 5
            /\ \A a \in DOMAIN pre.pos :
                system.pos[a][1] = (pre.pos[a][1] + 5) % 10
        /\ center \in center_of_geometry(reference.atoms, InBox(pre), pre.box)
        /\ center_of_geometry(reference.atoms, pre.pos, pre.box)
             = center_of_geometry(reference.atoms, InBox(pre), pre.box)

BoundaryWitness ==
    /\ pc = "write"
    /\ SeamCase
    /\ system.pos[3][1] = 8

\* a centred frame whose reference points were read outside the box
BoundaryImageWitness ==
    /\ Centered
    /\ reference.atoms = {1, 2}
    /\ pre.pos[1][1] = 11
    /\ pre.pos[2][1] = -1
    /\ center[1] = 0

\* C5: a failed write is fatal.  The step in which a write fails is the
\* return from main with code 1: it adds nothing to the output, and once
\* a write has failed no step follows, so no frame is read, centred or
\* written and no write is tried again.
WriteFailureFatal ==
    /\ [](lastWrite = "fail" => (pc = "exit" /\ exitCode = 1 /\ ~ENABLED Next))
    /\ [][lastWrite' = "fail" =>
            (written' = written /\ nread' = nread /\ ncentered' = ncentered)]_vars

WriteFailureWitness ==
    /\ lastWrite = "fail"
    /\ xtc_file # NULL
    /\ nread = 2
    /\ Len(written) = 1
\* C6: a broken read is told apart from the end of the stream.  A run
\* whose last read met the end of the stream (and whose writes succeeded)
\* returns 0; a run whose last read was broken returns non-zero.
ReadCorruptionIsFatal ==
    pc = "exit" =>
        /\ (lastRead = "eof" /\ lastWrite # "fail") => exitCode = 0
        /\ lastRead = "error" => exitCode # 0

\* C7: selection gating.  Once smart_select has returned NULL or an empty
\* selection the program has returned 1 and no trajectory was opened,
\* validated or read, no output was opened or written and nothing was
\* centred, with or without a trajectory on the command line.
SelectionGating ==
    (/\ ~all.isnull
     /\ pc # "select_ref"
     /\ (reference.isnull \/ reference.atoms = {}))
        => /\ pc = "exit"
           /\ exitCode = 1
           /\ xtc = "none"
           /\ output = "none"
           /\ nvalidated = 0
           /\ nread = 0
           /\ lastRead = "none"
           /\ ncentered = 0
           /\ written = <<>>

SelectionGatingWitness ==
    /\ pc = "exit"
    /\ exitCode = 1
    /\ ~all.isnull
    /\ ~reference.isnull
    /\ reference.atoms = {}
    /\ xtc_file # NULL

\* the run went through without an error
CompletedWithoutError ==
    \/ (xtc_file = NULL /\ lastWrite = "ok")
    \/ (xtc_file # NULL /\ lastRead = "eof" /\ lastWrite # "fail")

\* C8: exit-code contract.  main returns 0 exactly when the run completed
\* without an error and 1 on every error.
ExitCodeContract ==
    pc = "exit" =>
        /\ exitCode \in {0, 1}
        /\ exitCode = 0 <=> CompletedWithoutError

\* two of the paths on the command line are the same text
TwoPathsIdentical ==
    /\ gro_file # NULL
    /\ output_file # NULL
    /\ \/ gro_file = output_file
       \/ gro_file = xtc_file
       \/ xtc_file = output_file

\* C9: path collision.  When two of the structure, trajectory and output
\* paths are the same text, main has returned 1 once the checks are passed,
\* and the structure is never loaded and no file is ever opened.
PathCollision ==
    TwoPathsIdentical =>
        /\ ~sys_loaded
        /\ xtc = "none"
        /\ output = "none"
        /\ ndx_groups = "unread"
        /\ pc \in {"getopt", "paths", "exit"}
        /\ pc = "exit" => exitCode = 1

PathCollisionWitness ==
    /\ pc = "exit"
    /\ exitCode = 1
    /\ nargs = 0
    /\ gro_specified = 1
    /\ gro_file # output_file
    /\ gro_file # xtc_file
    /\ xtc_file = output_file

\* C10: the atom count is validated once, before streaming.  validate_xtc
\* runs at most once; a trajectory run has an open output or a read behind
\* it only after a validation that matched; after a mismatch main has
\* returned 1 with no frame read, no output opened and nothing written.
AtomCountValidatedOnce ==
    /\ nvalidated <= 1
    /\ (xtc_file # NULL /\ (output # "none" \/ lastRead # "none" \/ nread > 0))
        => (nvalidated = 1 /\ validated = "match")
    /\ validated = "mismatch"
        => /\ pc = "exit"
           /\ exitCode = 1
           /\ nread = 0
           /\ lastRead = "none"
           /\ output = "none"
           /\ written = <<>>

AtomCountWitness ==
    /\ validated = "mismatch"
    /\ pc = "exit"
    /\ xtc = "closed"

\* frames of index below n that the skip policy keeps
KeptBelow(n) == (n + skip - 1) \div skip

\* the frame read last is still being handled
InLoopBody == pc \in {"skip_check", "center", "write"}

\* C11: strictly sequential frame handling.  Every kept frame is centred
\* and written before the next frame is read: when a read delivers a frame
\* the output holds every kept frame read before it, at any moment at most
\* the frame read last is unwritten, and the output lists the kept frames
\* in input order.
SequentialFrames ==
    /\ []((xtc_file # NULL /\ output # "none" /\ lastWrite # "fail") =>
            /\ Len(written)
                 = KeptBelow(IF InLoopBody THEN nread - 1 ELSE nread)
            /\ \A i \in 1 .. Len(written) : \A j \in 1 .. Len(written) :
                 i < j => written[i].idx < written[j].idx)
    /\ [][nread' # nread =>
            /\ pc = "read"
            /\ nread' = nread + 1
            /\ Len(written) = KeptBelow(nread)
            /\ lastWrite # "fail"]_vars

SequentialFramesWitness ==
    /\ pc = "center"
    /\ skip = 2
    /\ nread = 3
    /\ Len(written) = 1
    /\ written[1].idx = 0

\* what centering frame f can give with the reference selection and the
\* axis mask of the run
CenteredFrames(f) ==
    {selection_translate(DOMAIN f.pos, f.pos,
                         set_translation(ZeroVec, f.box, c,
                                         center_x, center_y, center_z),
                         f.box) :
        c \in center_of_geometry(reference.atoms, f.pos, f.box)}

\* C12: with a trajectory the structure's coordinates are not used.  The
\* buffer that is centred holds exactly the frame that was read, the buffer
\* that is written is the centring of that frame alone, and the output
\* grows only by the box and the positions of that buffer: neither the
\* coordinates loaded from the structure file nor what earlier frames left
\* in the buffer enter it.
StructureCoordinatesUnused ==
    /\ [](xtc_file # NULL =>
            /\ pc \in {"skip_check", "center"} =>
                    (system = pre /\ pre \in XtcPool)
            /\ pc = "write" =>
                    (/\ pre \in XtcPool
                     /\ system.box = pre.box
                     /\ system.pos \in CenteredFrames(pre)))
    /\ [][(xtc_file # NULL /\ written' # written) =>
            /\ pc = "write"
            /\ written' = Append(written, [idx |-> nread - 1,
                                           box |-> system.box,
                                           pos |-> system.pos])]_vars

StructureCoordinatesWitness ==
    /\ pc = "exit"
    /\ exitCode = 0
    /\ xtc_file # NULL
    /\ Len(written) = 2
    /\ written[1].box # written[2].box
    /\ reference.atoms = {3}

\* the positions of main in the trajectory branch
TrajectoryBranch ==
    {"open_xtc", "validate", "open_out", "read", "skip_check", "center",
     "write", "finish"}

\* C13: single-frame mode.  Without a trajectory on the command line main
\* never enters the trajectory branch: no trajectory is opened, validated
\* or read and the frame counter stays 0; once the output is open the
\* structure's own coordinates are centred exactly once and one structure
\* write follows, whatever the skip interval.
SingleFrameRun ==
    (xtc_file = NULL /\ pc # "getopt") =>
        /\ pc \notin TrajectoryBranch
        /\ xtc = "none"
        /\ nvalidated = 0
        /\ nread = 0
        /\ lastRead = "none"
        /\ frames = 0
        /\ pc = "write_gro" =>
            /\ ncentered = 1
            /\ lastWrite = "none"
            /\ pre \in GroPool
            /\ system.box = pre.box
            /\ system.pos \in CenteredFrames(pre)
        /\ (pc = "exit" /\ output = "closed") =>
            /\ ncentered = 1
            /\ lastWrite \in {"ok", "fail"}
            /\ lastWrite = "ok" =>
                written = <<[idx |-> 0, box |-> system.box,
                             pos |-> system.pos]>>
            /\ lastWrite = "fail" => written = <<>>
        /\ (pc = "exit" /\ output # "closed") =>
            (ncentered = 0 /\ written = <<>> /\ lastWrite = "none")

SingleFrameWitness ==
    /\ pc = "exit"
    /\ exitCode = 0
    /\ xtc_file = NULL
    /\ skip = 3
    /\ Len(written) = 1
    /\ written[1].pos # pre.pos

\* C14: axis-mask default.  From main.c:157 on, the axes enabled for
\* centering are all three if none of -x, -y, -z was given, and otherwise
\* exactly the ones given; every run that loads the structure has passed
\* that point, and the mask never changes afterwards.
AxisMaskDefault ==
    /\ [](axes_given # <<>> =>
            <<center_x, center_y, center_z>>
                = IF axes_given = ZeroVec THEN <<1, 1, 1>> ELSE axes_given)
    /\ [](sys_loaded => axes_given # <<>>)
    /\ [][pc = "getopt" =>
            \A d \in Axes :
                <<center_x', center_y', center_z'>>[d]
                    \in {<<center_x, center_y, center_z>>[d], 1}]_vars

AxisMaskDefaultWitness ==
    /\ pc = "write"
    /\ axes_given = ZeroVec
    /\ center_x = 1
    /\ center_y = 1
    /\ center_z = 1
    /\ \A d \in Axes : translation[d] # 0

\* C15: resource lifecycle.  On every return from main after the system
\* was loaded and smart_select was called, the system's atom buffer and
\* the reference selection have each been released exactly once.
ResourceLifecycle ==
    (pc = "exit" /\ sys_loaded /\ ~all.isnull) =>
        /\ freed["system"] = 1
        /\ freed["reference"] = 1

\* C16: a missing or unreadable index file is not fatal.  Whatever read_ndx
\* returns, NULL included, main goes on to the selection, and there it
\* returns exactly when the reference selection is NULL or has no atoms.
NdxFailureNonFatal ==
    /\ [][pc = "read_ndx" => (pc' = "select_all" /\ exitCode' = -1)]_vars
    /\ [][pc = "select_ref" =>
            ((pc' = "exit") <=>
                (reference'.isnull \/ reference'.atoms = {}))]_vars

NdxFailureWitness ==
    /\ ndx_groups = NULL
    /\ pc = "exit"
    /\ exitCode = 0
    /\ reference.atoms = {1, 2}
    /\ Len(written) = 1

\* C17: frame counter.  The counter is 0 until the loop starts and never
\* decreases; at the skip check of the i-th frame read (0-based), and
\* until that frame is skipped or written, it reads i; every time the loop
\* comes back to read_xtc_step it equals the number of frames read, so
\* each frame, skipped or processed, has added exactly one; the first
\* frame is always processed.  (A failed write returns from main before
\* the increment of its frame.)
FrameCounter ==
    /\ [](xtc = "none" => frames = 0)
    /\ [](InLoopBody => frames = nread - 1)
    /\ [](pc \in {"read", "finish"} => frames = nread)
    /\ [](pc = "exit" =>
            frames = IF lastWrite = "fail" /\ xtc_file # NULL
                     THEN nread - 1 ELSE nread)
    /\ [][frames' \in {frames, frames + 1}]_vars
    /\ [][(pc = "skip_check" /\ nread = 1) => pc' = "center"]_vars

FrameCounterWitness ==
    /\ pc = "skip_check"
    /\ skip = 2
    /\ nread = 3
    /\ frames = 2
    /\ Len(written) = 1

\* the axes the mask enables
Enabled(d) == <<center_x, center_y, center_z>>[d] = 1

\* the planned translation is at most half the box edge on enabled axes
TranslationBounded ==
    \A d \in Axes :
        Enabled(d) => (2 * translation[d] <= pre.box[d]
                       /\ 2 * translation[d] >= -pre.box[d])

\* C18 as stated: in every centred frame the planned translation is at
\* most half the box edge in magnitude on every enabled axis, and after
\* the translation with its one wrap step every atom lies in [0, box) on
\* every translated axis.
SingleWrapSufficient ==
    Centered =>
        /\ TranslationBounded
        /\ \A d \in Axes : \A a \in DOMAIN pre.pos :
            translation[d] # 0 =>
                (0 <= system.pos[a][d] /\ system.pos[a][d] < pre.box[d])

\* C18 as amended: the translation bound holds, and every atom that was
\* read inside [0, box) on a translated axis lies in [0, box) after the
\* translation with its one wrap step.
SingleWrapInsideBox ==
    Centered =>
        /\ TranslationBounded
        /\ \A d \in Axes : \A a \in DOMAIN pre.pos :
            (/\ translation[d] # 0
             /\ 0 <= pre.pos[a][d]
             /\ pre.pos[a][d] < pre.box[d]) =>
                (0 <= system.pos[a][d] /\ system.pos[a][d] < pre.box[d])

\* an atom read inside the box has been wrapped back into it
SingleWrapWitness ==
    /\ pc = "write"
    /\ translation[1] = 5
    /\ \E a \in DOMAIN pre.pos : \E b \in DOMAIN pre.pos :
        /\ pre.pos[a][1] = 9
        /\ system.pos[a][1] = 4
        /\ pre.pos[b][1] = 1
        /\ system.pos[b][1] = 6

\* the reference selection's centre is the box centre on every enabled axis
AlreadyCentered ==
    \A d \in Axes : Enabled(d) => center[d] = pre.box[d] \div 2

\* the centre of the reference selection is defined without a choice on
\* every enabled axis (no rounding tie, points not spread evenly)
CenterDefined(f) ==
    \A d \in Axes :
        Enabled(d) =>
            Cardinality(CenterAxis(reference.atoms, f.pos, f.box, d)) = 1

HandleDiscipline ==
    /\ [](xtc # "misused" /\ output # "misused")
    /\ [](pc \in {"validate", "open_out", "read", "skip_check", "center",
                  "write", "finish"} => xtc = "open")
    /\ [](pc \in {"read", "skip_check", "center", "write", "finish"}
            => output = "open")
    /\ []((pc = "exit" /\ xtc_file # NULL) =>
            (xtc \in {"none", "closed"} /\ output \in {"none", "closed"}))
    /\ [][(nread' # nread \/ lastRead' # lastRead) =>
            (xtc = "open" /\ xtc' = "open")]_vars
    /\ [][/\ xtc = "open" => xtc' \in {"open", "closed"}
          /\ output = "open" => output' \in {"open", "closed"}
          /\ xtc = "closed" => xtc' = "closed"
          /\ output = "closed" => output' = "closed"]_vars
    /\ [][(written' # written \/ lastWrite' # lastWrite) =>
            output = "open"]_vars

HandleDisciplineWitness ==
    /\ pc = "exit"
    /\ xtc_file # NULL
    /\ lastWrite = "fail"
    /\ nread = 2
    /\ xtc = "closed"
    /\ output = "closed"
====
